---- MODULE Spec2Model ----
(***************************************************************************)
(* Model of astarte-device-fdo/src/srv_info.rs: the AstarteModBuilder that *)
(* accumulates the entries of the `astarte` service-info module and builds *)
(* an AstarteMod record out of them.                                       *)
(*                                                                         *)
(* Strings are sequences of tokens: a key "astarte:realm" is the sequence  *)
(* <<"astarte", ":", "realm">>, a text value is a sequence of characters.  *)
(* Option<T> is a sequence of length at most one: None is <<>>, Some(x) is *)
(* <<x>>.                                                                  *)
(***************************************************************************)
EXTENDS Integers, Sequences, FiniteSets, TLC

VARIABLES
    debug_assertions, \* build profile: TRUE when cfg(debug_assertions) is on
    pc,               \* "idle" | "reading" | "built" | "panicked" |
                      \* "serialized" | "deserialized"
    acc,              \* the AstarteModBuilder (five Option fields)
    res,              \* result of the last read call that returned
    out,              \* result of build
    log,              \* the tracing events emitted by the last step
    acc2,             \* the builder of the paired run (secrets substituted)
    log2,             \* the tracing events of the paired run's last step
    n,                \* entries pulled from the iterators so far
    cnt,              \* per recognised key: entries decoded by its handler
    sup,              \* per text key: the text of the last such entry
    activeSeen,       \* booleans decoded from astarte:active entries
    mistyped,         \* a recognised key came with a value of another type
    failed,           \* some read call on this builder returned an error
    unhandled,        \* keys that reached the default arm of the match
    resumed,          \* a read call began after entries had been pulled
    wire,             \* the serialized AstarteMod
    back              \* result of deserializing wire

vars == <<debug_assertions, pc, acc, res, out, log, acc2, log2, n, cnt, sup,
          activeSeen, mistyped, failed, unhandled, resumed, wire, back>>

\* The variables that record what was fed to the builder.
hist == <<n, cnt, sup, activeSeen, mistyped, unhandled>>

\* Total number of entries the iterators hand out during one builder's life.
MaxEntries == 6

----------------------------------------------------------------------------
\* Option<T>

None == <<>>

Some(x) == <<x>>

\* Option::replace: stores the new value and returns the old one.
replace(opt, x) == [new |-> Some(x), old |-> opt]

----------------------------------------------------------------------------
\* Keys and values of the service-info entries

Key(module, name) == <<module, ":", name>>

AstartePrefix == <<"astarte", ":">>

starts_with(s, p) == Len(s) >= Len(p) /\ SubSeq(s, 1, Len(p)) = p

KeyActive == Key("astarte", "active")

KeyRealm == Key("astarte", "realm")

KeySecret == Key("astarte", "secret")

KeyBaseUrl == Key("astarte", "baseurl")

KeyDeviceId == Key("astarte", "deviceid")

KeyNumModules == Key("astarte", "nummodules")

KeyModules == Key("astarte", "modules")

KeyForeign == Key("devmod", "active")

TextKeys == {KeyRealm, KeySecret, KeyBaseUrl, KeyDeviceId}

KnownKeys == {KeyActive} \cup TextKeys

Keys == KnownKeys \cup {KeyNumModules, KeyModules, KeyForeign}

\* The accumulator field a recognised key is stored in.
FieldOf(k) ==
    CASE k = KeyActive -> "active"
      [] k = KeyRealm -> "realm"
      [] k = KeySecret -> "secret"
      [] k = KeyBaseUrl -> "base_url"
      [] k = KeyDeviceId -> "device_id"

TextFields == {"realm", "secret", "base_url", "device_id"}

\* CBOR values: a bool or a tstr.
Bool(b) == [ty |-> "bool", b |-> b, s |-> <<>>]

Text(s) == [ty |-> "tstr", b |-> FALSE, s |-> s]

\* "t" has no scheme, "h:a" is an absolute URL.
TextPlain == <<"t">>

TextUrl == <<"h", ":", "a">>

Texts == {TextPlain, TextUrl}

Values == {Bool(TRUE), Bool(FALSE)} \cup {Text(s) : s \in Texts}

\* The entries a server can send: every recognised key with values of the
\* expected type and with one value of another type, the other keys with a
\* value of each type.
Entries ==
    [key : {KeyActive}, value : {Bool(TRUE), Bool(FALSE), Text(TextPlain)}]
    \cup [key : TextKeys, value : {Text(s) : s \in Texts} \cup {Bool(TRUE)}]
    \cup [key : {KeyNumModules, KeyModules, KeyForeign},
          value : {Bool(TRUE), Text(TextPlain)}]

Alpha == {"a", "h", "t"}

\* Url::parse(s).is_ok(): the text starts with a scheme followed by ':'.
UrlParseOk(s) ==
    \E i \in 2..Len(s) : s[i] = ":" /\ \A j \in 1..(i - 1) : s[j] \in Alpha

----------------------------------------------------------------------------
\* Results and tracing events

Ok == [kind |-> "Ok", ek |-> "", msg |-> ""]

Err(ek, msg) == [kind |-> "Err", ek |-> ek, msg |-> msg]

Panic == [kind |-> "Panic", ek |-> "", msg |-> "debug_assert"]

NoResult == [kind |-> "None", ek |-> "", msg |-> ""]

\* The error the decoder returns for a value of another CBOR type.
DecodeError == Err("Decode", "type mismatch")

\* ServiceInfoKv::value::<T>(): decodes the value as the type asked for.
value(info, ty) ==
    IF info.value.ty = ty THEN [r |-> Ok, v |-> info.value]
    ELSE [r |-> DecodeError, v |-> info.value]

Event(level, msg, field) == [level |-> level, msg |-> msg, field |-> field]

\* What a handler leaves behind: the builder, its result, the events.
Outcome(a, r, ev) == [acc |-> a, r |-> r, ev |-> ev]

----------------------------------------------------------------------------
\* AstarteModBuilder

Default ==
    [active |-> None, realm |-> None, secret |-> None, base_url |-> None,
     device_id |-> None]

\* active refusing every repetition of the flag, as the text handlers do.
active_no_repeat(a, info) ==
    LET d == value(info, "bool") IN
    IF d.r # Ok THEN Outcome(a, d.r, <<>>)
    ELSE LET rp == replace(a.active, d.v.b)
             a1 == [a EXCEPT !.active = rp.new]
         IN IF rp.old # None
            THEN Outcome(a1, Err("Invalid", "service info active replaced"),
                         <<>>)
            ELSE Outcome(a1, Ok, <<>>)

active(a, info) ==
    LET d == value(info, "bool") IN
    IF d.r # Ok THEN Outcome(a, d.r, <<>>)
    ELSE LET rp == replace(a.active, d.v.b)
             a1 == [a EXCEPT !.active = rp.new]
         IN IF rp.old # None /\ rp.old[1] # d.v.b
            THEN Outcome(a1, Err("Invalid", "service info active replaced"),
                         <<>>)
            ELSE Outcome(a1, Ok, <<>>)

\* realm skipping a value that does not decode instead of returning the error.
realm_skip_mistyped(a, info) ==
    LET d == value(info, "tstr") IN
    IF d.r # Ok THEN Outcome(a, Ok, <<>>)
    ELSE LET rp == replace(a.realm, d.v.s)
             a1 == [a EXCEPT !.realm = rp.new]
         IN IF rp.old # None
            THEN Outcome(a1, Err("Invalid", "service info realm replaced"),
                         <<Event("error", "multiple astarte realms",
                                 rp.old[1])>>)
            ELSE Outcome(a1, Ok, <<>>)

realm(a, info) ==
    LET d == value(info, "tstr") IN
    IF d.r # Ok THEN Outcome(a, d.r, <<>>)
    ELSE LET rp == replace(a.realm, d.v.s)
             a1 == [a EXCEPT !.realm = rp.new]
         IN IF rp.old # None
            THEN Outcome(a1, Err("Invalid", "service info realm replaced"),
                         <<Event("error", "multiple astarte realms",
                                 rp.old[1])>>)
            ELSE Outcome(a1, Ok, <<>>)

secret(a, info) ==
    LET d == value(info, "tstr") IN
    IF d.r # Ok THEN Outcome(a, d.r, <<>>)
    ELSE LET rp == replace(a.secret, d.v.s)
             a1 == [a EXCEPT !.secret = rp.new]
         IN IF rp.old # None
            THEN Outcome(a1, Err("Invalid", "service info secret replaced"),
                         <<Event("error", "multiple astarte secrets",
                                 rp.old[1])>>)
            ELSE Outcome(a1, Ok, <<>>)

\* base_url taking the old value out of the field before it decodes the new.
base_url_take_first(a, info, dbg) ==
    LET d == value(info, "tstr") IN
    IF d.r # Ok THEN Outcome([a EXCEPT !.base_url = None], d.r, <<>>)
    ELSE IF dbg /\ ~UrlParseOk(d.v.s) THEN Outcome(a, Panic, <<>>)
    ELSE LET rp == replace(a.base_url, d.v.s)
             a1 == [a EXCEPT !.base_url = rp.new]
         IN IF rp.old # None
            THEN Outcome(a1, Err("Invalid", "service info base url replaced"),
                         <<Event("error", "multiple astarte base urls",
                                 rp.old[1])>>)
            ELSE Outcome(a1, Ok, <<>>)

base_url(a, info, dbg) ==
    LET d == value(info, "tstr") IN
    IF d.r # Ok THEN Outcome(a, d.r, <<>>)
    ELSE IF dbg /\ ~UrlParseOk(d.v.s) THEN Outcome(a, Panic, <<>>)
    ELSE LET rp == replace(a.base_url, d.v.s)
             a1 == [a EXCEPT !.base_url = rp.new]
         IN IF rp.old # None
            THEN Outcome(a1, Err("Invalid", "service info base url replaced"),
                         <<Event("error", "multiple astarte base urls",
                                 rp.old[1])>>)
            ELSE Outcome(a1, Ok, <<>>)

\* device_id reporting the duplicate with another ErrorKind.
device_id_other_kind(a, info) ==
    LET d == value(info, "tstr") IN
    IF d.r # Ok THEN Outcome(a, d.r, <<>>)
    ELSE LET rp == replace(a.device_id, d.v.s)
             a1 == [a EXCEPT !.device_id = rp.new]
         IN IF rp.old # None
            THEN Outcome(a1, Err("Decode", "service info device id replaced"),
                         <<Event("error", "multiple astarte device id",
                                 rp.old[1])>>)
            ELSE Outcome(a1, Ok, <<>>)

device_id(a, info) ==
    LET d == value(info, "tstr") IN
    IF d.r # Ok THEN Outcome(a, d.r, <<>>)
    ELSE LET rp == replace(a.device_id, d.v.s)
             a1 == [a EXCEPT !.device_id = rp.new]
         IN IF rp.old # None
            THEN Outcome(a1, Err("Invalid", "service info device id replaced"),
                         <<Event("error", "multiple astarte device id",
                                 rp.old[1])>>)
            ELSE Outcome(a1, Ok, <<>>)

\* read without the filter: every key goes to the match.
is_astarte_all(k) == TRUE

\* The closure given to filter(): keeps the keys of the astarte module.
is_astarte(k) == starts_with(k, AstartePrefix)

\* dispatch refusing a key it does not know.
dispatch_unknown_fails(a, info, dbg) ==
    CASE info.key = KeyActive -> active(a, info)
      [] info.key = KeyRealm -> realm(a, info)
      [] info.key = KeySecret -> secret(a, info)
      [] info.key = KeyBaseUrl -> base_url(a, info, dbg)
      [] info.key = KeyDeviceId -> device_id(a, info)
      [] OTHER -> Outcome(a, Err("Invalid", "unhandled astarte mod key"),
                          <<Event("warn", "unhandled astarte mod key",
                                  info.key)>>)

\* The match of the for loop in read.
dispatch(a, info, dbg) ==
    CASE info.key = KeyActive -> active(a, info)
      [] info.key = KeyRealm -> realm(a, info)
      [] info.key = KeySecret -> secret(a, info)
      [] info.key = KeyBaseUrl -> base_url(a, info, dbg)
      [] info.key = KeyDeviceId -> device_id(a, info)
      [] OTHER -> Outcome(a, Ok, <<Event("warn", "unhandled astarte mod key",
                                         info.key)>>)

\* One entry pulled from the filtered iterator by the for loop of read.
read_entry(a, info, dbg) ==
    IF ~is_astarte(info.key)
    THEN Outcome(a, Ok, <<Event("debug", "skipping non astarte key",
                                info.key)>>)
    ELSE dispatch(a, info, dbg)

\* build_astarte without the test of the activation flag.
build_astarte_any_active(a) ==
    IF a.realm = None \/ a.secret = None \/ a.base_url = None
       \/ a.device_id = None
    THEN None
    ELSE Some([realm |-> a.realm[1], secret |-> a.secret[1],
               base_url |-> a.base_url[1], device_id |-> a.device_id[1]])

build_astarte(a) ==
    IF a.active # Some(TRUE) THEN None
    ELSE IF a.realm = None \/ a.secret = None \/ a.base_url = None
            \/ a.device_id = None
    THEN None
    ELSE Some([realm |-> a.realm[1], secret |-> a.secret[1],
               base_url |-> a.base_url[1], device_id |-> a.device_id[1]])

NoField == <<>>

\* build stopping at the first field it finds unset.
build_events_first_only(a) ==
    IF a.active # Some(TRUE)
    THEN <<Event("error", "active flag is unset", NoField)>>
    ELSE IF a.realm = None
    THEN <<Event("error", "realm is unsetset", NoField)>>
    ELSE IF a.secret = None
    THEN <<Event("error", "secret is unsetset", NoField)>>
    ELSE IF a.base_url = None
    THEN <<Event("error", "base_url is not set", NoField)>>
    ELSE IF a.device_id = None
    THEN <<Event("error", "device is not set", NoField)>>
    ELSE <<>>

build_events(a) ==
    (IF a.active # Some(TRUE)
     THEN <<Event("error", "active flag is unset", NoField)>> ELSE <<>>)
    \o (IF a.realm = None
        THEN <<Event("error", "realm is unsetset", NoField)>> ELSE <<>>)
    \o (IF a.secret = None
        THEN <<Event("error", "secret is unsetset", NoField)>> ELSE <<>>)
    \o (IF a.base_url = None
        THEN <<Event("error", "base_url is not set", NoField)>> ELSE <<>>)
    \o (IF a.device_id = None
        THEN <<Event("error", "device is not set", NoField)>> ELSE <<>>)

\* Result<AstarteMod, Error>: rec is Some(record) exactly when r is Ok.
build(a) ==
    LET m == build_astarte(a) IN
    [r |-> IF m = None THEN Err("Invalid", "astarte service info module")
           ELSE Ok,
     rec |-> m,
     ev |-> build_events(a)]

\* impl Serialize for AstarteMod: the tuple of the four fields.
serialize(m) == <<m.realm, m.secret, m.base_url, m.device_id>>

\* Deserialize with realm and secret taken in the other order.
deserialize_swapped(w) ==
    IF Len(w) = 4
    THEN [r |-> Ok,
          rec |-> Some([realm |-> w[2], secret |-> w[1], base_url |-> w[3],
                        device_id |-> w[4]])]
    ELSE [r |-> Err("Decode", "invalid length"), rec |-> None]

\* impl Deserialize for AstarteMod: a tuple of four texts, field by field.
deserialize(w) ==
    IF Len(w) = 4
    THEN [r |-> Ok,
          rec |-> Some([realm |-> w[1], secret |-> w[2], base_url |-> w[3],
                        device_id |-> w[4]])]
    ELSE [r |-> Err("Decode", "invalid length"), rec |-> None]

----------------------------------------------------------------------------
\* The paired run: the same entries with every secret text substituted.

OtherText(s) == IF s = TextPlain THEN TextUrl ELSE TextPlain

Paired(info) ==
    IF info.key = KeySecret /\ info.value.ty = "tstr"
    THEN [info EXCEPT !.value = Text(OtherText(info.value.s))]
    ELSE info

----------------------------------------------------------------------------
\* State machine

NoOut == [r |-> NoResult, rec |-> None]

\* The CBOR type the table of the module gives for a recognised key.
TypeOf(k) == IF k = KeyActive THEN "bool" ELSE "tstr"

WellTyped(info) == info.key \in KnownKeys /\ info.value.ty = TypeOf(info.key)

MisTyped(info) == info.key \in KnownKeys /\ info.value.ty # TypeOf(info.key)

Init ==
    /\ debug_assertions \in BOOLEAN
    /\ pc = "idle"
    /\ acc = Default
    /\ res = NoResult
    /\ out = NoOut
    /\ log = <<>>
    /\ acc2 = Default
    /\ log2 = <<>>
    /\ n = 0
    /\ cnt = [k \in KnownKeys |-> 0]
    /\ sup = [k \in TextKeys |-> None]
    /\ activeSeen = {}
    /\ mistyped = FALSE
    /\ failed = FALSE
    /\ unhandled = {}
    /\ resumed = FALSE
    /\ wire = <<>>
    /\ back = NoOut

\* read starting from a fresh builder at every call.
ReadCall_fresh ==
    /\ pc = "idle"
    /\ pc' = "reading"
    /\ res' = NoResult
    /\ log' = <<>>
    /\ log2' = <<>>
    /\ acc' = Default
    /\ acc2' = Default
    /\ resumed' = (resumed \/ n > 0)
    /\ UNCHANGED <<debug_assertions, out, hist, failed, wire, back>>

\* The caller calls read(iter).
ReadCall ==
    /\ pc = "idle"
    /\ pc' = "reading"
    /\ res' = NoResult
    /\ log' = <<>>
    /\ log2' = <<>>
    /\ resumed' = (resumed \/ n > 0)
    /\ UNCHANGED <<debug_assertions, acc, out, acc2, hist, failed, wire, back>>

\* The loop going on to the next entry after a handler returned an error.
ReadEntry_continue(info) ==
    /\ pc = "reading"
    /\ n < MaxEntries
    /\ LET o == read_entry(acc, info, debug_assertions)
           o2 == read_entry(acc2, Paired(info), debug_assertions)
       IN /\ acc' = o.acc
          /\ log' = o.ev
          /\ acc2' = o2.acc
          /\ log2' = o2.ev
          /\ pc' = IF o.r.kind = "Panic" THEN "panicked" ELSE "reading"
          /\ res' = IF o.r.kind = "Ok" THEN res ELSE o.r
          /\ failed' = (failed \/ o.r.kind = "Err")
    /\ n' = n + 1
    /\ cnt' = IF WellTyped(info)
              THEN [cnt EXCEPT ![info.key] = @ + 1] ELSE cnt
    /\ sup' = IF WellTyped(info) /\ info.key \in TextKeys
              THEN [sup EXCEPT ![info.key] = Some(info.value.s)] ELSE sup
    /\ activeSeen' = IF WellTyped(info) /\ info.key = KeyActive
                     THEN activeSeen \cup {info.value.b} ELSE activeSeen
    /\ mistyped' = (mistyped \/ MisTyped(info))
    /\ unhandled' = IF is_astarte(info.key) /\ info.key \notin KnownKeys
                    THEN unhandled \cup {info.key} ELSE unhandled
    /\ UNCHANGED <<debug_assertions, out, resumed, wire, back>>

\* The iterator yields the entry info: filter, then the body of the loop.
ReadEntry(info) ==
    /\ pc = "reading"
    /\ n < MaxEntries
    /\ LET o == read_entry(acc, info, debug_assertions)
           o2 == read_entry(acc2, Paired(info), debug_assertions)
       IN /\ acc' = o.acc
          /\ log' = o.ev
          /\ acc2' = o2.acc
          /\ log2' = o2.ev
          /\ pc' = CASE o.r.kind = "Ok" -> "reading"
                     [] o.r.kind = "Panic" -> "panicked"
                     [] OTHER -> "idle"
          /\ res' = IF o.r.kind = "Ok" THEN res ELSE o.r
          /\ failed' = (failed \/ o.r.kind = "Err")
    /\ n' = n + 1
    /\ cnt' = IF WellTyped(info)
              THEN [cnt EXCEPT ![info.key] = @ + 1] ELSE cnt
    /\ sup' = IF WellTyped(info) /\ info.key \in TextKeys
              THEN [sup EXCEPT ![info.key] = Some(info.value.s)] ELSE sup
    /\ activeSeen' = IF WellTyped(info) /\ info.key = KeyActive
                     THEN activeSeen \cup {info.value.b} ELSE activeSeen
    /\ mistyped' = (mistyped \/ MisTyped(info))
    /\ unhandled' = IF is_astarte(info.key) /\ info.key \notin KnownKeys
                    THEN unhandled \cup {info.key} ELSE unhandled
    /\ UNCHANGED <<debug_assertions, out, resumed, wire, back>>

\* The iterator is exhausted: read returns Ok(()).
ReadEnd ==
    /\ pc = "reading"
    /\ pc' = "idle"
    /\ res' = Ok
    /\ log' = <<>>
    /\ log2' = <<>>
    /\ UNCHANGED <<debug_assertions, acc, out, acc2, hist, failed, resumed,
                   wire, back>>

\* The caller calls build(), which consumes the builder.
Build ==
    /\ pc = "idle"
    /\ pc' = "built"
    /\ LET b == build(acc)
           b2 == build(acc2)
       IN /\ out' = [r |-> b.r, rec |-> b.rec]
          /\ log' = b.ev
          /\ log2' = b2.ev
    /\ UNCHANGED <<debug_assertions, acc, res, acc2, hist, failed, resumed,
                   wire, back>>

\* The Record build returned is serialized.
Serialize ==
    /\ pc = "built"
    /\ out.r = Ok
    /\ pc' = "serialized"
    /\ wire' = serialize(out.rec[1])
    /\ UNCHANGED <<debug_assertions, acc, res, out, log, acc2, log2, hist,
                   failed, resumed, back>>

\* The serialized Record is deserialized.
Deserialize ==
    /\ pc = "serialized"
    /\ pc' = "deserialized"
    /\ back' = LET d == deserialize(wire) IN [r |-> d.r, rec |-> d.rec]
    /\ UNCHANGED <<debug_assertions, acc, res, out, log, acc2, log2, hist,
                   failed, resumed, wire>>

Next ==
    \/ ReadCall
    \/ \E info \in Entries : ReadEntry(info)
    \/ ReadEnd
    \/ Build
    \/ Serialize
    \/ Deserialize

Spec == Init /\ [][Next]_vars

----------------------------------------------------------------------------
\* Properties

Fields == {"active"} \cup TextFields

ErrInvalid(r) == r.kind = "Err" /\ r.ek = "Invalid"

\* The entries fed so far are active=true once and one text for each of the
\* four text keys, every one of them of the expected type.
CompleteInput ==
    /\ ~mistyped
    /\ activeSeen = {TRUE}
    /\ \A k \in KnownKeys : cnt[k] = 1

SuppliedRecord ==
    [realm |-> sup[KeyRealm][1], secret |-> sup[KeySecret][1],
     base_url |-> sup[KeyBaseUrl][1], device_id |-> sup[KeyDeviceId][1]]

\* C1: once active=true and one well-typed text for each of realm, secret,
\* baseurl and deviceid have been fed, in whatever order, read does not fail
\* (it returns Ok when the iterator ends) and build returns the Record made
\* of the supplied texts.
C1_CompleteInputBuilds ==
    CompleteInput =>
        /\ pc # "panicked"
        /\ pc = "idle" => res = Ok
        /\ pc = "built" => out.r = Ok /\ out.rec = Some(SuppliedRecord)

\* C2: if build returns a Record, every text key was decoded exactly once and
\* every astarte:active entry decoded had the value true, read calls that
\* returned an error included.
C2_RecordOnlyIfSuppliedOnce ==
    (pc = "built" /\ out.r = Ok) =>
        /\ \A k \in TextKeys : cnt[k] = 1
        /\ activeSeen = {TRUE}

\* The activation flag is unset or false, or a text field was never supplied.
Incomplete ==
    \/ acc.active # Some(TRUE)
    \/ activeSeen \in {{}, {FALSE}}
    \/ \E k \in TextKeys : cnt[k] = 0 \/ acc[FieldOf(k)] = None

\* C3: build of an accumulator whose activation flag is unset or false, or
\* that lacks one of the four text fields, fails with an error of kind
\* Invalid and yields no Record.
C3_IncompleteIsInvalid ==
    (pc = "built" /\ Incomplete) => ErrInvalid(out.r) /\ out.rec = None

\* C3 witness: active=false and all four texts were fed, build failed.
C3_Witness ==
    /\ pc = "built"
    /\ activeSeen = {FALSE}
    /\ \A k \in TextKeys : cnt[k] = 1
    /\ ErrInvalid(out.r)

\* C4: a second, well-typed occurrence of a text key whose field is already
\* set makes read return an error of kind Invalid at that entry.
C4_DuplicateTextIsInvalid ==
    [][\A info \in Entries :
          (/\ ReadEntry(info)
           /\ info.key \in TextKeys
           /\ WellTyped(info)
           /\ acc[FieldOf(info.key)] # None)
          => (pc' = "idle" /\ ErrInvalid(res'))]_vars

\* C5: a field of the accumulator that is set keeps its value for ever, also
\* across an entry that is refused as a duplicate or as a conflict.
C5_SetOnceNeverOverwritten ==
    [][\A f \in Fields : acc[f] # None => acc'[f] = acc[f]]_vars

\* C6: astarte:active with a bool is accepted when the flag is unset or holds
\* the same bool (the loop goes on, no error), and is refused with an error
\* of kind Invalid when the flag holds the other bool.
C6_ActiveRepeatedIfConsistent ==
    [][\A info \in Entries :
          (ReadEntry(info) /\ info.key = KeyActive /\ WellTyped(info))
          => IF acc.active = None \/ acc.active = Some(info.value.b)
             THEN pc' = "reading" /\ res' = res
             ELSE pc' = "idle" /\ ErrInvalid(res')]_vars

\* C6 witness: active=true was decoded twice and build returned a Record.
C6_Witness ==
    /\ pc = "built"
    /\ out.r = Ok
    /\ cnt[KeyActive] >= 2
    /\ activeSeen = {TRUE}

\* C7: the run and the paired run, which differ in the secret texts only,
\* emit the same tracing events at every step.
C7_SecretNeverLogged == log = log2

\* C8: astarte:baseurl with a text that is not a URL is accepted: the loop
\* goes on without an error and the text is stored as it is.
C8_BadUrlIsAccepted ==
    [][\A info \in Entries :
          (/\ ReadEntry(info)
           /\ info.key = KeyBaseUrl
           /\ WellTyped(info)
           /\ ~UrlParseOk(info.value.s)
           /\ acc.base_url = None)
          => (/\ pc' = "reading"
              /\ res' = res
              /\ acc'.base_url = Some(info.value.s))]_vars

\* C9: an entry under the astarte: prefix whose key is not one of the five
\* recognised keys leaves the accumulator as it is and does not end the read
\* call: the loop goes on with the same result as without the entry.
C9_UnhandledKeyIsIgnored ==
    [][\A info \in Entries :
          (ReadEntry(info) /\ is_astarte(info.key)
           /\ info.key \notin KnownKeys)
          => (acc' = acc /\ pc' = "reading" /\ res' = res)]_vars

\* C9 witness: an unhandled astarte key was just skipped by a read call on an
\* accumulator that already holds fields.
C9_Witness ==
    /\ pc = "reading"
    /\ log = <<Event("warn", "unhandled astarte mod key", KeyNumModules)>>
    /\ acc.active = Some(TRUE)
    /\ acc.realm # None

\* C10: a recognised key with a value of another CBOR type makes read return
\* the error of the decoder, and the accumulator is left as it was: nothing
\* is coerced, nothing is stored, the entry is not skipped.
C10_TypeMismatchIsDecodeError ==
    [][\A info \in Entries :
          (ReadEntry(info) /\ MisTyped(info))
          => (pc' = "idle" /\ res' = DecodeError /\ acc' = acc)]_vars

\* C10 witness: read returned the error of the decoder for a text key whose
\* field stays unset, after other fields were set.
C10_Witness ==
    /\ pc = "idle"
    /\ res = DecodeError
    /\ mistyped
    /\ acc.active = Some(TRUE)
    /\ acc.realm = None

AfterBuild == pc \in {"built", "serialized", "deserialized"}

\* C12: once a read call on the builder has returned an error, build does
\* not return a Record.
C12_FailedReadPoisons == (failed /\ AfterBuild) => out.r # Ok

\* C13: deserializing the serialized Record gives back a Record equal to it
\* on realm, secret, base_url and device_id.
C13_RoundTrip ==
    pc = "deserialized" => back.r = Ok /\ back.rec = out.rec

\* C13 witness: a Record whose fields are pairwise told apart went through
\* the round trip.
C13_Witness ==
    /\ pc = "deserialized"
    /\ back.r = Ok
    /\ back.rec[1].realm # back.rec[1].secret
    /\ back.rec[1].base_url # back.rec[1].device_id
    /\ back.rec[1].secret # back.rec[1].base_url

\* C14: build returns a Record only if astarte:nummodules and astarte:modules
\* were part of the stream.
C14_ModulesRequired ==
    (AfterBuild /\ out.r = Ok) => {KeyNumModules, KeyModules} \subseteq unhandled

\* C15: the entry whose handler returns an error ends the read call with that
\* error; entries are ingested and the accumulator changes only while a call
\* is in progress, so nothing after the failed entry is ingested.
C15_FailFast ==
    [][/\ \A info \in Entries :
             (/\ ReadEntry(info)
              /\ read_entry(acc, info, debug_assertions).r.kind = "Err")
             => (/\ pc' = "idle"
                 /\ res' = read_entry(acc, info, debug_assertions).r)
       /\ (n' # n \/ acc' # acc) => pc = "reading"
       /\ pc = "idle" => hist' = hist /\ acc' = acc]_vars

\* C15 witness: a read call ended at a duplicate realm while secret was still
\* to come.
C15_Witness ==
    /\ pc = "idle"
    /\ res = Err("Invalid", "service info realm replaced")
    /\ acc.active = Some(TRUE)
    /\ acc.secret = None

MissingMsg(f) ==
    CASE f = "active" -> "active flag is unset"
      [] f = "realm" -> "realm is unsetset"
      [] f = "secret" -> "secret is unsetset"
      [] f = "base_url" -> "base_url is not set"
      [] f = "device_id" -> "device is not set"

Unsatisfied(f) == IF f = "active" THEN acc.active # Some(TRUE) ELSE acc[f] = None

Emitted(m) == Cardinality({i \in 1..Len(log) : log[i].msg = m})

\* C17: build emits one diagnostic for each field that is not satisfied and
\* none for the others, and returns an error exactly when it emitted one.
C17_OneDiagnosticPerMissingField ==
    pc = "built" =>
        /\ \A f \in Fields :
              Emitted(MissingMsg(f)) = IF Unsatisfied(f) THEN 1 ELSE 0
        /\ Len(log) = Cardinality({f \in Fields : Unsatisfied(f)})
        /\ out.r.kind = "Err" <=> Len(log) > 0

\* C17 witness: build of a builder that lacks three fields.
C17_Witness ==
    /\ pc = "built"
    /\ Len(log) = 3
    /\ acc.active = Some(TRUE)
    /\ acc.secret = None
    /\ acc.device_id = None

\* C18: an entry of a recognised key that fails to decode leaves each of the
\* five fields of the accumulator as it was, the field of its key included.
C18_DecodeFailureKeepsAccumulator ==
    [][\A info \in Entries :
          (/\ ReadEntry(info)
           /\ MisTyped(info)
           /\ read_entry(acc, info, debug_assertions).r.kind = "Err")
          => \A f \in Fields : acc'[f] = acc[f]]_vars

\* C18 witness: a decode failure on a builder whose five fields were set.
C18_Witness ==
    /\ pc = "idle"
    /\ res = DecodeError
    /\ \A f \in Fields : acc[f] # None

====
